---- MODULE Spec2Model ----
(***************************************************************************)
(* A model of app.py: the backtracking Sudoku solver (is_valid,            *)
(* find_empty, solve_sudoku), the hint engine (get_hint), the /api/solve   *)
(* and /api/hint request handlers, and the image extraction orchestrator   *)
(* (extract_sudoku_from_image and its strategies).                         *)
(*                                                                         *)
(* Python lists are functions over 0..n-1, so board[row][col] reads as in  *)
(* the source.                                                             *)
(***************************************************************************)
EXTENDS Integers, Sequences, FiniteSets, TLC

VARIABLES
    board,      \* the grid solve_sudoku mutates in place
    input,      \* the grid as it was handed in (never written after Init)
    sols,       \* the set of valid completions of input (specification side)
    stack,      \* solve_sudoku's activation records, innermost last
    pc,         \* position of the solver: "idle", "call", "loop", "ret", "done"
    retval,     \* value returned by the call of solve_sudoku that last returned
    retEntry,   \* the board as it was when that call started
    backtracks, \* how often line 287 (board[row][col] = 0) has run
    hpc,        \* position of the hint loop: "idle", "ask", "loop", "solving", "done"
    ub,         \* the caller's board, which the returned hints are written into
    board_copy, \* get_hint's board_copy
    hcell,      \* get_hint's (row, col)
    hnum,       \* get_hint's num
    hint,       \* what get_hint last returned: <<row, col, num>> or None
    asked,      \* the board get_hint was last called on
    req,        \* the request: [op, board], board as the JSON body gave it
    resp,       \* the response of the request handler
    called,     \* the boards solve_sudoku / get_hint were invoked with
    apc,        \* position of the request: "idle", "pending", "done"
    epc,        \* position of extract_sudoku_from_image: "idle", "start",
                \* "tesseract", "gemini", "mock", "returned"
    env,        \* TESSERACT_AVAILABLE, GEMINI_AVAILABLE, GEMINI_API_KEY set
    attempts,   \* the strategies tried so far, in order
    recognized, \* what the recognition of the 81 cells gave
    tessOut,    \* what extract_sudoku_with_tesseract returned
    gemReply,   \* what the vision model answered
    gemOut,     \* what extract_sudoku_with_gemini returned
    result,     \* what extract_sudoku_from_image returned
    source,     \* the strategy the result comes from
    excepted    \* whether the except clause of lines 199-202 ran

solverVars == <<stack, pc, retval, retEntry, backtracks>>
hintVars == <<hpc, ub, board_copy, hcell, hnum, hint, asked>>
apiVars == <<req, resp, called, apc>>
extractVars == <<epc, env, attempts, recognized, tessOut, gemReply, gemOut,
                 result, source, excepted>>
vars == <<board, input, sols, stack, pc, retval, retEntry, backtracks,
          hpc, ub, board_copy, hcell, hnum, hint, asked,
          req, resp, called, apc,
          epc, env, attempts, recognized, tessOut, gemReply, gemOut, result,
          source, excepted>>

----------------------------------------------------------------------------
(* Grids *)

N == 9
Box == 3
Idx == 0 .. (N - 1)
Digits == 1 .. N
Cells == Idx \X Idx

\* Python's None, and the empty tuple used for "no cell"
None == <<>>

MkGrid(rows) == [r \in Idx |-> [c \in Idx |-> rows[r + 1][c + 1]]]

\* mock_extract_sudoku: the fixed sample puzzle
MockPuzzle ==
    MkGrid(<< <<5, 3, 0, 0, 7, 0, 0, 0, 0>>,
              <<6, 0, 0, 1, 9, 5, 0, 0, 0>>,
              <<0, 9, 8, 0, 0, 0, 0, 6, 0>>,
              <<8, 0, 0, 0, 6, 0, 0, 0, 3>>,
              <<4, 0, 0, 8, 0, 3, 0, 0, 1>>,
              <<7, 0, 0, 0, 2, 0, 0, 0, 6>>,
              <<0, 6, 0, 0, 0, 0, 2, 8, 0>>,
              <<0, 0, 0, 4, 1, 9, 0, 0, 5>>,
              <<0, 0, 0, 0, 8, 0, 0, 7, 9>> >>)

\* The completion of the sample puzzle: the solved grid the inputs are cut from
BaseSolution ==
    MkGrid(<< <<5, 3, 4, 6, 7, 8, 9, 1, 2>>,
              <<6, 7, 2, 1, 9, 5, 3, 4, 8>>,
              <<1, 9, 8, 3, 4, 2, 5, 6, 7>>,
              <<8, 5, 9, 7, 6, 1, 4, 2, 3>>,
              <<4, 2, 6, 8, 5, 3, 7, 9, 1>>,
              <<7, 1, 3, 9, 2, 4, 8, 5, 6>>,
              <<9, 6, 1, 5, 3, 7, 2, 8, 4>>,
              <<2, 8, 7, 4, 1, 9, 6, 3, 5>>,
              <<3, 4, 5, 2, 8, 6, 1, 7, 9>> >>)

----------------------------------------------------------------------------
(* is_valid, find_empty *)

\* is_valid without the column check of lines 260-263
IsValidNoCol(b, row, col, num) ==
    /\ ~ \E x \in Idx : b[row][x] = num
    /\ LET start_row == Box * (row \div Box)
           start_col == Box * (col \div Box)
       IN  ~ \E i \in 0 .. (Box - 1), j \in 0 .. (Box - 1) :
                b[i + start_row][j + start_col] = num

IsValid(b, row, col, num) ==
    /\ ~ \E x \in Idx : b[row][x] = num
    /\ ~ \E x \in Idx : b[x][col] = num
    /\ LET start_row == Box * (row \div Box)
           start_col == Box * (col \div Box)
       IN  ~ \E i \in 0 .. (Box - 1), j \in 0 .. (Box - 1) :
                b[i + start_row][j + start_col] = num

\* the cells of the 9x9 area that hold 0
EmptyCells(b) == {rc \in Cells : b[rc[1]][rc[2]] = 0}

\* row-major order on cells
Before(a, c) == a[1] < c[1] \/ (a[1] = c[1] /\ a[2] < c[2])

\* find_empty scanning from the last cell backwards
FindEmptyLast(b) ==
    IF EmptyCells(b) = {} THEN None
    ELSE CHOOSE rc \in EmptyCells(b) :
            \A other \in EmptyCells(b) : other = rc \/ Before(other, rc)

FindEmpty(b) ==
    IF EmptyCells(b) = {} THEN None
    ELSE CHOOSE rc \in EmptyCells(b) :
            \A other \in EmptyCells(b) : other = rc \/ Before(rc, other)

----------------------------------------------------------------------------
(* solve_sudoku as a function: the value it returns and the board it leaves *)

\* line 287 left out: a failed placement stays on the board
KeepPlacement(b, row, col) == b

\* line 287: board[row][col] = 0
Backtrack(b, row, col) == [b EXCEPT ![row][col] = 0]

RECURSIVE SolveSudoku(_), TryNums(_, _, _, _)

\* the for loop of solve_sudoku from num on, at the cell (row, col)
TryNums(b, row, col, num) ==
    IF num > N THEN [ok |-> FALSE, board |-> b]
    ELSE IF IsValid(b, row, col, num)
         THEN LET r == SolveSudoku([b EXCEPT ![row][col] = num])
              IN  IF r.ok THEN r
                  ELSE TryNums(Backtrack(r.board, row, col), row, col, num + 1)
         ELSE TryNums(b, row, col, num + 1)

SolveSudoku(b) ==
    LET empty == FindEmpty(b)
    IN  IF empty = None THEN [ok |-> TRUE, board |-> b]
        ELSE TryNums(b, empty[1], empty[2], 1)

----------------------------------------------------------------------------
(* Specification side: what a valid completion is *)

RowVals(g, r) == {g[r][c] : c \in Idx}
ColVals(g, c) == {g[r][c] : r \in Idx}
BoxVals(g, br, bc) ==
    {g[Box * br + i][Box * bc + j] : i \in 0 .. (Box - 1), j \in 0 .. (Box - 1)}

\* every row, column and box holds each of 1..9
IsSolution(g) ==
    /\ \A r \in Idx : RowVals(g, r) = Digits
    /\ \A c \in Idx : ColVals(g, c) = Digits
    /\ \A br \in 0 .. (Box - 1), bc \in 0 .. (Box - 1) : BoxVals(g, br, bc) = Digits

\* g keeps every clue of b
Extends(g, b) == \A rc \in Cells : b[rc[1]][rc[2]] # 0 => g[rc[1]][rc[2]] = b[rc[1]][rc[2]]

\* the digits no clue of b rules out at the cell rc
Open(b, rc) ==
    Digits \ (RowVals(b, rc[1]) \cup ColVals(b, rc[2])
                \cup BoxVals(b, rc[1] \div Box, rc[2] \div Box))

\* every way of filling the cells of `todo` with digits the clues leave open
RECURSIVE Fillings(_, _, _)
Fillings(b, g, todo) ==
    IF todo = {} THEN {g}
    ELSE LET rc == CHOOSE x \in todo : TRUE
         IN  UNION {Fillings(b, [g EXCEPT ![rc[1]][rc[2]] = v], todo \ {rc}) :
                        v \in Open(b, rc)}

\* all valid completions of b
Completions(b) == {g \in Fillings(b, b, EmptyCells(b)) : IsSolution(g)}

\* no digit occurs twice among the clues of a row, a column or a box
NoConflict(b) ==
    \A rc \in Cells :
        b[rc[1]][rc[2]] # 0 =>
            IsValid([b EXCEPT ![rc[1]][rc[2]] = 0], rc[1], rc[2], b[rc[1]][rc[2]])

----------------------------------------------------------------------------
(* Inputs: the solved grid with some cells of Pool blanked and, possibly,  *)
(* the cell PertCell overwritten with another digit.                       *)

MaxBlanks == 5

Pool == { <<6, 3>>, <<6, 8>>, <<7, 3>>, <<7, 8>>, <<6, 4>>, <<6, 5>>,
          <<3, 6>>, <<2, 6>> }

PertCell == <<6, 6>>

BlankSets == {B \in SUBSET Pool : Cardinality(B) <= MaxBlanks}

\* 0 for "no overwrite"
PertValues == {0} \cup (Digits \ {BaseSolution[PertCell[1]][PertCell[2]]})

MkInput(B, w) ==
    [r \in Idx |-> [c \in Idx |->
        IF <<r, c>> \in B THEN 0
        ELSE IF w # 0 /\ <<r, c>> = PertCell THEN w
        ELSE BaseSolution[r][c]]]

----------------------------------------------------------------------------
(* solve_sudoku step by step: one frame per active call *)

Top == stack[Len(stack)]
Pop == SubSeq(stack, 1, Len(stack) - 1)

HintIdle ==
    /\ hpc = "idle" /\ ub = None /\ board_copy = None /\ hcell = None /\ hnum = 0
    /\ hint = None /\ asked = None

ApiIdle == req = None /\ resp = None /\ called = <<>> /\ apc = "idle"

\* Python values as eval and the strategies produce them: None, an int, or
\* a list of values
VNone == [t |-> "none", v |-> 0, items |-> <<>>]
VInt(n) == [t |-> "int", v |-> n, items |-> <<>>]
VList(seq) == [t |-> "list", v |-> 0, items |-> seq]

NoOutcome == [kind |-> "none", board |-> None, text |-> <<>>]

ExtractIdle ==
    /\ epc = "idle" /\ env = None /\ attempts = <<>> /\ recognized = NoOutcome
    /\ tessOut = VNone /\ gemReply = NoOutcome /\ gemOut = VNone
    /\ result = VNone /\ source = "none" /\ excepted = FALSE

InitSolve ==
    /\ \E B \in BlankSets, w \in PertValues :
          /\ input = MkInput(B, w)
          /\ board = input
          /\ sols = Completions(input)
    /\ stack = <<>>
    /\ pc = "call"
    /\ retval = FALSE
    /\ retEntry = None
    /\ backtracks = 0
    /\ HintIdle
    /\ ApiIdle
    /\ ExtractIdle

\* lines 274-278: entering solve_sudoku
SolveCall ==
    /\ pc = "call"
    /\ LET empty == FindEmpty(board)
       IN  IF empty = None
           THEN /\ pc' = "ret"
                /\ retval' = TRUE
                /\ retEntry' = board
                /\ stack' = stack
           ELSE /\ pc' = "loop"
                /\ stack' = Append(stack, [row |-> empty[1], col |-> empty[2],
                                           num |-> 1, entry |-> board])
                /\ UNCHANGED <<retval, retEntry>>
    /\ UNCHANGED <<board, input, sols, backtracks, hintVars, apiVars, extractVars>>

\* lines 280-282 and 289: one turn of the for loop, or its end
SolveLoop ==
    /\ pc = "loop"
    /\ IF Top.num > N
       THEN /\ pc' = "ret"
            /\ retval' = FALSE
            /\ retEntry' = Top.entry
            /\ stack' = Pop
            /\ board' = board
       ELSE IF IsValid(board, Top.row, Top.col, Top.num)
            THEN /\ board' = [board EXCEPT ![Top.row][Top.col] = Top.num]
                 /\ pc' = "call"
                 /\ UNCHANGED <<stack, retval, retEntry>>
            ELSE /\ stack' = [stack EXCEPT ![Len(stack)].num = @ + 1]
                 /\ UNCHANGED <<board, pc, retval, retEntry>>
    /\ UNCHANGED <<input, sols, backtracks, hintVars, apiVars, extractVars>>

\* lines 284-287: the recursive call came back
SolveReturn ==
    /\ pc = "ret"
    /\ IF stack = <<>>
       THEN /\ pc' = "done"
            /\ UNCHANGED <<board, stack, retval, retEntry, backtracks>>
       ELSE IF retval
            THEN /\ retEntry' = Top.entry
                 /\ stack' = Pop
                 /\ UNCHANGED <<board, pc, retval, backtracks>>
            ELSE /\ board' = Backtrack(board, Top.row, Top.col)
                 /\ backtracks' = backtracks + 1
                 /\ stack' = [stack EXCEPT ![Len(stack)].num = @ + 1]
                 /\ pc' = "loop"
                 /\ UNCHANGED <<retval, retEntry>>
    /\ UNCHANGED <<input, sols, hintVars, apiVars, extractVars>>

NextSolve == SolveCall \/ SolveLoop \/ SolveReturn

SolveSpec == InitSolve /\ [][NextSolve]_vars

\* the interpreter runs the solver to its end
SolveFairSpec == SolveSpec /\ WF_vars(NextSolve)

----------------------------------------------------------------------------
(* get_hint *)

RECURSIVE HintNums(_, _, _, _)

\* lines 310-322: the for loop of get_hint from num on
HintNums(bc, row, col, num) ==
    IF num > N THEN [hint |-> None, board_copy |-> bc]
    ELSE IF IsValid(bc, row, col, num)
         THEN LET placed == [bc EXCEPT ![row][col] = num]
              IN  IF SolveSudoku(placed).ok
                  THEN [hint |-> <<row, col, num>>, board_copy |-> placed]
                  ELSE HintNums([placed EXCEPT ![row][col] = 0], row, col, num + 1)
         ELSE HintNums(bc, row, col, num + 1)

\* get_hint: the pair (hint, board_copy) it returns
GetHint(b) ==
    LET empty == FindEmpty(b)
    IN  IF empty = None THEN [hint |-> None, board_copy |-> b]
        ELSE HintNums(b, empty[1], empty[2], 1)

\* line 303: the cell get_hint works on
HintCellLast(b) == FindEmptyLast(b)

HintCell(b) == FindEmpty(b)

\* line 316 with the result of solve_sudoku ignored
AttemptIgnored == TRUE

\* line 316: if solve_sudoku(solution_attempt)
AttemptSucceeded == retval

InitHint ==
    /\ \E B \in BlankSets, w \in PertValues :
          /\ input = MkInput(B, w)
          /\ ub = input
          /\ sols = Completions(input)
    /\ board = None
    /\ stack = <<>> /\ pc = "idle" /\ retval = FALSE /\ retEntry = None
    /\ backtracks = 0
    /\ hpc = "ask"
    /\ board_copy = None /\ hcell = None /\ hnum = 0
    /\ hint = None
    /\ asked = None
    /\ ApiIdle
    /\ ExtractIdle

\* lines 299-307: the caller asks get_hint for a hint on its board
HintCall ==
    /\ hpc = "ask"
    /\ asked' = ub
    /\ board_copy' = ub
    /\ LET empty == HintCell(ub)
       IN  IF empty = None
           THEN /\ hint' = None
                /\ hpc' = "done"
                /\ UNCHANGED <<hcell, hnum>>
           ELSE /\ hcell' = empty
                /\ hnum' = 1
                /\ hpc' = "loop"
                /\ hint' = hint
    /\ UNCHANGED <<ub, board, input, sols, solverVars, apiVars, extractVars>>

\* lines 310-316 and 322: one turn of get_hint's for loop, or its end
HintLoop ==
    /\ hpc = "loop"
    /\ IF hnum > N
       THEN /\ hint' = None
            /\ hpc' = "done"
            /\ UNCHANGED <<board_copy, hnum, board, solverVars>>
       ELSE IF IsValid(board_copy, hcell[1], hcell[2], hnum)
            THEN /\ board_copy' = [board_copy EXCEPT ![hcell[1]][hcell[2]] = hnum]
                 /\ board' = board_copy'
                 /\ stack' = <<>>
                 /\ pc' = "call"
                 /\ retval' = FALSE
                 /\ retEntry' = None
                 /\ backtracks' = 0
                 /\ hpc' = "solving"
                 /\ UNCHANGED <<hnum, hint>>
            ELSE /\ hnum' = hnum + 1
                 /\ UNCHANGED <<board_copy, hpc, hint, board, solverVars>>
    /\ UNCHANGED <<ub, hcell, asked, input, sols, apiVars, extractVars>>

\* lines 316-320: solve_sudoku(solution_attempt) came back; on success
\* get_hint returns the hint and the caller writes it into its board
HintSolved ==
    /\ hpc = "solving"
    /\ pc = "done"
    /\ pc' = "idle"
    /\ IF AttemptSucceeded
       THEN /\ hint' = <<hcell[1], hcell[2], hnum>>
            /\ ub' = [ub EXCEPT ![hcell[1]][hcell[2]] = hnum]
            /\ hpc' = "ask"
            /\ UNCHANGED <<board_copy, hnum>>
       ELSE /\ board_copy' = [board_copy EXCEPT ![hcell[1]][hcell[2]] = 0]
            /\ hnum' = hnum + 1
            /\ hpc' = "loop"
            /\ UNCHANGED <<ub, hint>>
    /\ UNCHANGED <<hcell, asked, board, input, sols, stack, retval, retEntry,
                   backtracks, apiVars, extractVars>>

NextHint == HintCall \/ HintLoop \/ HintSolved \/ SolveCall \/ SolveLoop \/ SolveReturn

HintSpec == InitHint /\ [][NextHint]_vars

\* the interpreter runs get_hint to its end, and the caller keeps asking
\* until get_hint returns no hint
HintFairSpec == HintSpec /\ WF_vars(NextHint)

----------------------------------------------------------------------------
(* The request handlers /api/solve and /api/hint                           *)
(*                                                                         *)
(* The JSON body's board is a list of rows; an entry is a number, a        *)
(* string, null, or a nested array/object.  Strings are sequences of       *)
(* characters.                                                             *)

PyInt(n) == [t |-> "int", n |-> n, s |-> <<>>]
PyStr(str) == [t |-> "str", n |-> 0, s |-> str]
PyNone == [t |-> "none", n |-> 0, s |-> <<>>]
PyObj == [t |-> "list", n |-> 0, s |-> <<>>]

DigitChars == <<"0", "1", "2", "3", "4", "5", "6", "7", "8", "9">>
IsDigit(ch) == \E i \in DOMAIN DigitChars : DigitChars[i] = ch
DigitVal(ch) == (CHOOSE i \in DOMAIN DigitChars : DigitChars[i] = ch) - 1
IsSpace(ch) == ch = " "

RECURSIVE LStrip(_)
LStrip(str) == IF str # <<>> /\ IsSpace(Head(str)) THEN LStrip(Tail(str)) ELSE str

RECURSIVE RStrip(_)
RStrip(str) ==
    IF str # <<>> /\ IsSpace(str[Len(str)])
    THEN RStrip(SubSeq(str, 1, Len(str) - 1))
    ELSE str

RECURSIVE Decimal(_, _)
Decimal(str, acc) ==
    IF str = <<>> THEN acc ELSE Decimal(Tail(str), 10 * acc + DigitVal(Head(str)))

\* int(str): surrounding whitespace dropped, an optional sign, one or more
\* decimal digits; anything else raises ValueError
ParseInt(str) ==
    LET t == RStrip(LStrip(str))
        signed == t # <<>> /\ Head(t) \in {"-", "+"}
        body == IF signed THEN Tail(t) ELSE t
    IN  IF body = <<>> \/ \E i \in DOMAIN body : ~IsDigit(body[i])
        THEN [ok |-> FALSE, val |-> 0]
        ELSE [ok |-> TRUE,
              val |-> IF signed /\ Head(t) = "-" THEN 0 - Decimal(body, 0)
                      ELSE Decimal(body, 0)]

\* an int() that maps what it cannot read to 0 instead of raising
PyIntOfLenient(e) ==
    IF e.t = "int" THEN [ok |-> TRUE, val |-> e.n]
    ELSE IF e.t = "str" /\ ParseInt(e.s).ok THEN ParseInt(e.s)
    ELSE [ok |-> TRUE, val |-> 0]

\* lines 348, 377: int(board[i][j]); ok = FALSE when it raises
PyIntOf(e) ==
    IF e.t = "int" THEN [ok |-> TRUE, val |-> e.n]
    ELSE IF e.t = "str" THEN ParseInt(e.s)
    ELSE [ok |-> FALSE, val |-> 0]

\* lines 345, 374: board[i][j] == '' or board[i][j] is None
IsBlankEntry(e) == (e.t = "str" /\ e.s = <<>>) \/ e.t = "none"

\* board[i][j] raises IndexError, or int(board[i][j]) raises
Raises(b, i, j) ==
    \/ i \notin DOMAIN b
    \/ j \notin DOMAIN b[i]
    \/ ~IsBlankEntry(b[i][j]) /\ ~PyIntOf(b[i][j]).ok

\* lines 343-348, 372-377: the conversion loops over range(9) x range(9).
\* They end with the first cell that raises (ok = FALSE); otherwise every
\* cell of the 9x9 area is replaced by 0 or by its int(), and rows and
\* entries beyond that area stay as they were.
Convert(b) ==
    IF \E i \in Idx, j \in Idx : Raises(b, i, j)
    THEN [ok |-> FALSE, board |-> b]
    ELSE [ok |-> TRUE,
          board |-> [i \in DOMAIN b |->
                        IF i \notin Idx THEN b[i]
                        ELSE [j \in DOMAIN b[i] |->
                                IF j \notin Idx THEN b[i][j]
                                ELSE IF IsBlankEntry(b[i][j]) THEN 0
                                ELSE PyIntOf(b[i][j]).val]]]

\* lines 339, 368: "if not board" is taken for a missing board and for []
Falsy(b) == b = None

Response(status, kind, grid, h) ==
    [status |-> status, kind |-> kind, grid |-> grid, hint |-> h]

\* lines 334-359: the handler of /api/solve
SolveRequest ==
    /\ apc = "pending"
    /\ req.op = "solve"
    /\ apc' = "done"
    /\ IF Falsy(req.board)
       THEN resp' = Response(400, "error", None, None) /\ called' = called
       ELSE LET c == Convert(req.board)
            IN  IF ~c.ok
                THEN resp' = Response(500, "error", None, None) /\ called' = called
                ELSE LET r == SolveSudoku(c.board)
                     IN  /\ called' = Append(called, c.board)
                         /\ resp' = IF r.ok
                                    THEN Response(200, "solution", r.board, None)
                                    ELSE Response(400, "error", None, None)
    /\ UNCHANGED <<req, board, input, sols, solverVars, hintVars, extractVars>>

\* lines 363-388: the handler of /api/hint
HintRequest ==
    /\ apc = "pending"
    /\ req.op = "hint"
    /\ apc' = "done"
    /\ IF Falsy(req.board)
       THEN resp' = Response(400, "error", None, None) /\ called' = called
       ELSE LET c == Convert(req.board)
            IN  IF ~c.ok
                THEN resp' = Response(500, "error", None, None) /\ called' = called
                ELSE LET h == GetHint(c.board).hint
                     IN  /\ called' = Append(called, c.board)
                         /\ resp' = IF h # None
                                    THEN Response(200, "hint", None, h)
                                    ELSE Response(400, "error", None, None)
    /\ UNCHANGED <<req, board, input, sols, solverVars, hintVars, extractVars>>

(* Requests: a grid of the input family as JSON, with at most one defect *)

MaxStrLen == 2
MaxApiBlanks == 1

Chars == {"0", "5", " ", "-", "a"}

Strings == UNION {[1 .. n -> Chars] : n \in 0 .. MaxStrLen}

\* what a client may send in one cell
Entries ==
    {PyStr(str) : str \in Strings} \cup {PyNone, PyObj}
        \cup {PyInt(n) : n \in {0 - 1, 0, 5, 10, 12}}

\* the three ways of sending an empty cell
BlankStyles == {PyInt(0), PyStr(<<>>), PyNone}

ApiGrids ==
    {MkInput(B, w) : B \in {X \in SUBSET Pool : Cardinality(X) <= MaxApiBlanks},
                     w \in {0, 5}}

RawGrid(g, blank) ==
    [r \in Idx |-> [c \in Idx |-> IF g[r][c] = 0 THEN blank ELSE PyInt(g[r][c])]]

\* the list b without its i-th row
DropRow(b, i) == [k \in 0 .. (N - 2) |-> IF k < i THEN b[k] ELSE b[k + 1]]

\* the list b with a tenth row
AddRow(b) == [k \in 0 .. N |-> IF k < N THEN b[k] ELSE b[0]]

\* the list b with the last entry of row i missing
ShortRow(b, i) == [b EXCEPT ![i] = [c \in 0 .. (N - 2) |-> b[i][c]]]

\* the list b with a tenth entry e in row i
LongRow(b, i, e) == [b EXCEPT ![i] = [c \in 0 .. N |-> IF c < N THEN b[i][c] ELSE e]]

DefectRows == {0, 8}
DefectCells == { <<0, 0>>, <<8, 8>> }

\* the boards as a client sends them when nothing is wrong
BaseBoards == {RawGrid(g, blank) : g \in ApiGrids, blank \in BlankStyles}

\* the boards of Base, each also with one defect, and no board at all
RawBoards(Base) ==
    Base
        \cup {DropRow(b, i) : b \in Base, i \in DefectRows}
        \cup {AddRow(b) : b \in Base}
        \cup {ShortRow(b, i) : b \in Base, i \in DefectRows}
        \cup {LongRow(b, i, e) : b \in Base, i \in DefectRows,
                                 e \in {PyInt(5), PyStr(<<"a">>)}}
        \cup {[b EXCEPT ![rc[1]][rc[2]] = e] : b \in Base, rc \in DefectCells, e \in Entries}
        \cup {None}

InitApi ==
    /\ req \in [op : {"solve", "hint"}, board : RawBoards(BaseBoards)]
    /\ resp = None
    /\ called = <<>>
    /\ apc = "pending"
    /\ board = None /\ input = None /\ sols = {}
    /\ stack = <<>> /\ pc = "idle" /\ retval = FALSE /\ retEntry = None
    /\ backtracks = 0
    /\ HintIdle
    /\ ExtractIdle

NextApi == SolveRequest \/ HintRequest

ApiSpec == InitApi /\ [][NextApi]_vars

----------------------------------------------------------------------------
(* Image extraction: extract_sudoku_with_tesseract,                        *)
(* extract_sudoku_with_gemini, extract_sudoku_from_image                   *)

\* a 9x9 grid as a Python list of lists
GridValue(g) ==
    VList([r \in 1 .. N |-> VList([c \in 1 .. N |-> VInt(g[r - 1][c - 1])])])

\* "if board:" - None, 0 and the empty list are false
Truthy(val) ==
    \/ val.t = "list" /\ val.items # <<>>
    \/ val.t = "int" /\ val.v # 0

MinClues == 17

RECURSIVE SumTo(_, _)
SumTo(f, k) == IF k < 0 THEN 0 ELSE f[k] + SumTo(f, k - 1)

\* line 157: sum(1 for row in board for digit in row if digit > 0)
DigitCount(b) ==
    SumTo([r \in Idx |-> SumTo([c \in Idx |-> IF b[r][c] > 0 THEN 1 ELSE 0], N - 1)],
          N - 1)

\* the gate of line 158 written with <= for <
TesseractGateOffByOne(b) ==
    IF DigitCount(b) <= MinClues THEN VNone ELSE GridValue(b)

\* lines 156-162: the plausibility gate on the recognised board
TesseractGate(b) ==
    IF DigitCount(b) < MinClues THEN VNone ELSE GridValue(b)

\* lines 139-166: extract_sudoku_with_tesseract; an exception in the
\* preprocessing or the segmentation is caught and gives None
ExtractSudokuWithTesseract(outcome) ==
    IF outcome.kind = "raised" THEN VNone ELSE TesseractGate(outcome.board)

(* The reply of the vision model is text: a sequence of tokens "[", "]",  *)
(* ",", "sp" (whitespace), "w" (a name that is not bound), "exit()" (a     *)
(* call of the builtin exit) and decimal numbers.                          *)

MaxNum == 12

IsNumTok(tok) == \E n \in 0 .. MaxNum : ToString(n) = tok
NumVal(tok) == CHOOSE n \in 0 .. MaxNum : ToString(n) = tok

\* line 223-224: re.search(r'\[\[.*?\]\]', text, re.DOTALL): from the first
\* "[[" to the first "]]" after it; <<>> when there is none
RegexMatch(text) ==
    LET Opens == {i \in 1 .. (Len(text) - 1) : text[i] = "[" /\ text[i + 1] = "["}
        Closes(i) == {j \in (i + 2) .. (Len(text) - 1) :
                        text[j] = "]" /\ text[j + 1] = "]"}
    IN  IF Opens = {} THEN <<>>
        ELSE LET i == CHOOSE x \in Opens : \A y \in Opens : x <= y
             IN  IF Closes(i) = {} THEN <<>>
                 ELSE LET j == CHOOSE x \in Closes(i) : \A y \in Closes(i) : x <= y
                      IN  SubSeq(text, i, j + 1)

NoSpaces(text) == SelectSeq(text, LAMBDA tok : tok # "sp")

\* the expression does not compile
SyntaxError == [ok |-> FALSE, val |-> VNone, next |-> 0, raised |-> "SyntaxError"]

\* the exception of the first of two evaluations, in evaluation order
FirstRaised(a, b) == IF a # "" THEN a ELSE b

RECURSIVE ParseValue(_, _), ParseItems(_, _, _, _)

\* one expression starting at pos: a number, a name, a call or a list
\* display; raised is the exception its evaluation ends with, "" if none
ParseValue(toks, pos) ==
    IF pos > Len(toks) THEN SyntaxError
    ELSE IF toks[pos] = "[" THEN ParseItems(toks, pos + 1, <<>>, "")
    ELSE IF IsNumTok(toks[pos])
         THEN [ok |-> TRUE, val |-> VInt(NumVal(toks[pos])), next |-> pos + 1,
               raised |-> ""]
    ELSE IF toks[pos] = "w"
         THEN [ok |-> TRUE, val |-> VNone, next |-> pos + 1, raised |-> "NameError"]
    ELSE IF toks[pos] = "exit()"
         THEN [ok |-> TRUE, val |-> VNone, next |-> pos + 1, raised |-> "SystemExit"]
    ELSE SyntaxError

\* the items of a list display up to its "]"; a trailing comma is allowed
ParseItems(toks, pos, acc, exc) ==
    IF pos > Len(toks) THEN SyntaxError
    ELSE IF toks[pos] = "]"
         THEN [ok |-> TRUE, val |-> VList(acc), next |-> pos + 1, raised |-> exc]
    ELSE LET item == ParseValue(toks, pos)
         IN  IF ~item.ok \/ item.next > Len(toks) THEN SyntaxError
             ELSE IF toks[item.next] = ","
                  THEN ParseItems(toks, item.next + 1, Append(acc, item.val),
                                  FirstRaised(exc, item.raised))
             ELSE IF toks[item.next] = "]"
                  THEN [ok |-> TRUE, val |-> VList(Append(acc, item.val)),
                        next |-> item.next + 1,
                        raised |-> FirstRaised(exc, item.raised)]
             ELSE SyntaxError

\* line 229: eval(matrix_str): compiled as a whole, then evaluated from
\* left to right
Eval(text) ==
    LET toks == NoSpaces(text)
        r == ParseValue(toks, 1)
    IN  IF r.ok /\ r.next = Len(toks) + 1 THEN r ELSE SyntaxError

\* the classes that "except Exception" catches; SystemExit derives from
\* BaseException only
IsException(exc) == exc \in {"SyntaxError", "NameError", "ApiError"}

Returns(val) == [escapes |-> "", val |-> val]

\* lines 205-236: extract_sudoku_with_gemini; an Exception of the API call
\* or of eval is caught and gives None, any other leaves the function
ExtractSudokuWithGemini(outcome) ==
    IF outcome.kind = "raised" THEN Returns(VNone)
    ELSE LET m == RegexMatch(outcome.text)
         IN  IF m = <<>> THEN Returns(VNone)
             ELSE LET e == Eval(m)
                  IN  IF e.raised = "" THEN Returns(e.val)
                      ELSE IF IsException(e.raised) THEN Returns(VNone)
                      ELSE [escapes |-> e.raised, val |-> VNone]

\* line 179: if board (after the structural strategy)
TesseractAccepted(val) == Truthy(val)

\* line 191: if board (after the vision-model strategy)
GeminiAccepted(val) == Truthy(val)

(* What the environment may do *)

NumCells == N * N
RecStarts == {0, 40}
RecStrides == {1, 2}
RecShifts == {0, 4}

\* a recognition result with n non-zero cells: every stride-th cell from
\* start on, n of them, with digits that depend on the place
RecBoard(n, start, stride, shift) ==
    LET Filled == {(start + i * stride) % NumCells : i \in 0 .. (n - 1)}
    IN  [r \in Idx |-> [c \in Idx |->
            IF (N * r + c) \in Filled THEN ((N * r + c + shift) % N) + 1 ELSE 0]]

TessOutcomes ==
    {[kind |-> "raised", board |-> None, text |-> <<>>]}
        \cup {[kind |-> "board", board |-> RecBoard(n, st, sd, sh), text |-> <<>>] :
                n \in 0 .. NumCells, st \in RecStarts, sd \in RecStrides,
                sh \in RecShifts}

RECURSIVE RenderItems(_, _)

\* the text of a value, as the prompt asks for it: no whitespace
Render(val) ==
    IF val.t = "int" THEN <<ToString(val.v)>>
    ELSE <<"[">> \o RenderItems(val.items, 1) \o <<"]">>

RenderItems(items, k) ==
    IF k > Len(items) THEN <<>>
    ELSE Render(items[k]) \o (IF k < Len(items) THEN <<",">> ELSE <<>>)
            \o RenderItems(items, k + 1)

Good == GridValue(MockPuzzle)
EightRows == VList(SubSeq(Good.items, 1, N - 1))
ShortFirstRow == VList([Good.items EXCEPT ![1] = VList(SubSeq(@.items, 1, N - 1))])
BigEntry == VList([Good.items EXCEPT ![1] = VList([@.items EXCEPT ![3] = VInt(12)])])
OneRow == VList(<<VList(<<VInt(1), VInt(2), VInt(3)>>)>>)
EmptyRow == VList(<<VList(<<>>)>>)

Matrices == {Good, EightRows, ShortFirstRow, BigEntry, OneRow, EmptyRow}

DropLast(text) == SubSeq(text, 1, Len(text) - 1)

ReplyTexts ==
    {Render(m) : m \in Matrices}
        \cup {<<"w", "sp", "w", "sp">> \o Render(m) \o <<"sp", "w">> : m \in Matrices}
        \cup { <<>>,
               <<"w", "sp", "w">>,
               DropLast(Render(Good)),
               DropLast(Render(Good)) \o <<"sp", "]">>,
               <<"[", "[", "1", "sp", "2", "]", "]">>,
               <<"[", "[", "1", ",", ",", "2", "]", "]">>,
               <<"[", "[", "w", "]", "]">>,
               <<"[", "[", "exit()", "]", "]">>,
               <<"[", "[", "w", ",", "exit()", "]", "]">>,
               <<"[", "[", "exit()", ",", "w", "]", "]">>,
               <<"[", "[", "exit()", "sp", "1", "]", "]">>,
               <<"w", "sp", "exit()">>,
               <<"[", "[", "[", "1", "]", "]", "]">>,
               <<"[", "[", "1", ",", "]", ",", "sp", "[", "2", "]", "]">>,
               Render(OneRow) \o <<"sp", "w", "sp">> \o Render(Good) }

GemOutcomes ==
    {[kind |-> "raised", board |-> None, text |-> <<>>]}
        \cup {[kind |-> "reply", board |-> None, text |-> txt] : txt \in ReplyTexts}

InitExtract ==
    /\ env \in [tesseract : BOOLEAN, gemini : BOOLEAN, key : BOOLEAN]
    /\ epc = "start"
    /\ attempts = <<>>
    /\ recognized = NoOutcome
    /\ tessOut = VNone
    /\ gemReply = NoOutcome
    /\ gemOut = VNone
    /\ result = VNone
    /\ source = "none"
    /\ excepted = FALSE
    /\ board = None /\ input = None /\ sols = {}
    /\ stack = <<>> /\ pc = "idle" /\ retval = FALSE /\ retEntry = None
    /\ backtracks = 0
    /\ HintIdle
    /\ ApiIdle

\* lines 199-202: the except clause returns the sample puzzle
ExceptClause ==
    /\ excepted' = TRUE
    /\ result' = GridValue(MockPuzzle)
    /\ source' = "mock"
    /\ attempts' = Append(attempts, "mock")
    /\ epc' = "returned"

\* lines 171-173: decoding the image data, which may raise
ExtractDecode ==
    /\ epc = "start"
    /\ \E decoded \in BOOLEAN :
          IF decoded
          THEN /\ epc' = "tesseract"
               /\ UNCHANGED <<attempts, result, source, excepted>>
          ELSE ExceptClause
    /\ UNCHANGED <<env, recognized, tessOut, gemReply, gemOut>>
    /\ UNCHANGED <<board, input, sols, solverVars, hintVars, apiVars>>

\* lines 176-182: the structural strategy
ExtractTesseract ==
    /\ epc = "tesseract"
    /\ IF env.tesseract
       THEN \E outcome \in TessOutcomes :
               LET b == ExtractSudokuWithTesseract(outcome)
               IN  /\ recognized' = outcome
                   /\ tessOut' = b
                   /\ attempts' = Append(attempts, "tesseract")
                   /\ IF TesseractAccepted(b)
                      THEN result' = b /\ source' = "tesseract" /\ epc' = "returned"
                      ELSE epc' = "gemini" /\ UNCHANGED <<result, source>>
       ELSE /\ epc' = "gemini"
            /\ UNCHANGED <<recognized, tessOut, attempts, result, source>>
    /\ UNCHANGED <<env, gemReply, gemOut, excepted>>
    /\ UNCHANGED <<board, input, sols, solverVars, hintVars, apiVars>>

\* lines 185-194: the vision-model strategy; configure_genai may raise.
\* An exception that is not an Exception passes the clause of line 199.
ExtractGemini ==
    /\ epc = "gemini"
    /\ IF env.gemini /\ env.key
       THEN \/ /\ ExceptClause
               /\ UNCHANGED <<gemReply, gemOut>>
            \/ \E outcome \in GemOutcomes :
                  LET r == ExtractSudokuWithGemini(outcome)
                  IN  /\ gemReply' = outcome
                      /\ attempts' = Append(attempts, "gemini")
                      /\ excepted' = excepted
                      /\ IF r.escapes # ""
                         THEN /\ epc' = "raised"
                              /\ UNCHANGED <<gemOut, result, source>>
                         ELSE /\ gemOut' = r.val
                              /\ IF GeminiAccepted(r.val)
                                 THEN /\ result' = r.val
                                      /\ source' = "gemini"
                                      /\ epc' = "returned"
                                 ELSE /\ epc' = "mock"
                                      /\ UNCHANGED <<result, source>>
       ELSE /\ epc' = "mock"
            /\ UNCHANGED <<gemReply, gemOut, attempts, result, source, excepted>>
    /\ UNCHANGED <<env, recognized, tessOut>>
    /\ UNCHANGED <<board, input, sols, solverVars, hintVars, apiVars>>

\* lines 196-198: the fixed sample puzzle
ExtractMock ==
    /\ epc = "mock"
    /\ result' = GridValue(MockPuzzle)
    /\ source' = "mock"
    /\ attempts' = Append(attempts, "mock")
    /\ epc' = "returned"
    /\ UNCHANGED <<env, recognized, tessOut, gemReply, gemOut, excepted>>
    /\ UNCHANGED <<board, input, sols, solverVars, hintVars, apiVars>>

NextExtract == ExtractDecode \/ ExtractTesseract \/ ExtractGemini \/ ExtractMock

ExtractSpec == InitExtract /\ [][NextExtract]_vars

----------------------------------------------------------------------------
(* Claims about solve_sudoku *)

\* input has exactly one valid completion
Unique == Cardinality(sols) = 1

\* C1: on a grid with exactly one valid completion S, solve_sudoku
\* terminates, returns True and leaves the grid equal to S (a full valid
\* grid is its own completion, so it is left unchanged).
C1_SolvesUnique == Unique ~> (pc = "done" /\ retval /\ board \in sols)

\* a unique puzzle solved after the search had to revert placements
C1_Witness ==
    /\ pc = "done" /\ Unique /\ retval /\ board \in sols
    /\ backtracks >= 2 /\ board # input

\* a full valid grid handed in: returned True, unchanged
C1_FullGridReached ==
    pc = "done" /\ EmptyCells(input) = {} /\ Unique /\ retval /\ board = input

\* C2: on a grid with no valid completion, conflicting clues included,
\* solve_sudoku returns False.
C2_UnsolvableReturnsFalse == (pc = "done" /\ sols = {}) => ~retval

\* the part of C2 the code keeps: no completion and no conflicting clues
C2_CleanUnsolvableReturnsFalse ==
    (pc = "done" /\ sols = {} /\ NoConflict(input)) => ~retval

\* C10: a call of solve_sudoku that returns False leaves the board as it
\* was when the call started, and the clues of the input are never changed.
C10_BacktrackRestores ==
    /\ (pc \in {"ret", "done"} /\ ~retval) => board = retEntry
    /\ Extends(board, input)

\* the outermost call returned False after reverting three placements
C10_Witness ==
    /\ pc = "done" /\ ~retval /\ backtracks >= 3
    /\ EmptyCells(input) # {} /\ board = input

\* a call two levels down returned False
C10_NestedReached == pc = "ret" /\ ~retval /\ Len(stack) >= 2 /\ board = retEntry

----------------------------------------------------------------------------
(* Claims about get_hint *)

\* the hint last returned is the digit every completion has in that cell
HintAgrees == hint # None => \A s \in sols : s[hint[1]][hint[2]] = hint[3]

\* C3: on a puzzle with a unique solution S, every hint agrees with S and
\* the loop of asking for a hint and applying it ends with the board at S,
\* where get_hint returns no hint.
C3_HintsReachSolution ==
    /\ [](Unique => HintAgrees)
    /\ (Unique ~> (hpc = "done" /\ hint = None /\ ub \in sols))

\* a unique puzzle with four or more empty cells filled hint by hint
C3_Witness ==
    /\ hpc = "done" /\ Unique /\ ub \in sols
    /\ Cardinality(EmptyCells(input)) >= 4

\* the first empty cell in row-major order
FirstEmpty(b) ==
    CHOOSE rc \in EmptyCells(b) :
        \A o \in EmptyCells(b) : N * rc[1] + rc[2] <= N * o[1] + o[2]

\* the values is_valid accepts at rc and solve_sudoku completes
Viable(b, rc) ==
    {v \in Digits : /\ IsValid(b, rc[1], rc[2], v)
                    /\ SolveSudoku([b EXCEPT ![rc[1]][rc[2]] = v]).ok}

ExpectedHint(b) ==
    IF EmptyCells(b) = {} THEN None
    ELSE LET rc == FirstEmpty(b)
             V == Viable(b, rc)
         IN  IF V = {} THEN None
             ELSE <<rc[1], rc[2], CHOOSE v \in V : \A u \in V : v <= u>>

\* C4: get_hint returns (r, c, v) exactly when (r, c) is the first empty
\* cell and v the smallest viable value there, and no hint exactly when the
\* board is full or no value at that cell is viable.
C4_HintIsFirstViable ==
    (hpc \in {"ask", "done"} /\ asked # None) => hint = ExpectedHint(asked)

\* a hint returned where two values were viable
C4_Witness ==
    /\ hpc = "ask" /\ asked # None /\ hint # None
    /\ Cardinality(Viable(asked, FirstEmpty(asked))) >= 2

\* no hint on a board that still has an empty cell
C4_NoHintReached ==
    hpc = "done" /\ asked # None /\ hint = None /\ EmptyCells(asked) # {}

----------------------------------------------------------------------------
(* Claims about the request handlers *)

\* the request's board has fewer than nine rows
MissingRow(b) == b # None /\ \E i \in Idx : i \notin DOMAIN b

\* str is a decimal numeral: an optional sign and one or more digits,
\* possibly with whitespace around it
IsNumeral(str) ==
    \E i \in 1 .. Len(str), j \in 1 .. Len(str) :
        /\ i <= j
        /\ \A k \in 1 .. (i - 1) : str[k] = " "
        /\ \A k \in (j + 1) .. Len(str) : str[k] = " "
        /\ \A k \in (i + 1) .. j : IsDigit(str[k])
        /\ \/ IsDigit(str[i])
           \/ str[i] \in {"-", "+"} /\ i < j

\* e is neither a number nor a blank
NonNumericNonBlank(e) ==
    \/ e.t = "list"
    \/ e.t = "str" /\ e.s # <<>> /\ ~IsNumeral(e.s)

\* some entry of the board is neither a number nor a blank
HasBadEntry(b) ==
    \E i \in DOMAIN b : \E j \in DOMAIN b[i] : NonNumericNonBlank(b[i][j])

\* some entry among the first nine of the first nine rows is neither
HasBadEntryInArea(b) ==
    \E i \in Idx, j \in Idx :
        i \in DOMAIN b /\ j \in DOMAIN b[i] /\ NonNumericNonBlank(b[i][j])

\* C8: a solve or hint request whose board misses a row or holds a
\* non-numeric, non-blank entry gets an error response, and neither
\* solve_sudoku nor get_hint is invoked for it.
C8_MalformedRejected ==
    (apc = "done" /\ (MissingRow(req.board) \/ HasBadEntry(req.board)))
        => (resp.kind = "error" /\ resp.status >= 400 /\ called = <<>>)

\* the part of C8 that the conversion loops do enforce: a missing row, or a
\* bad entry where the loops look, ends the request with an error
RejectedWithinArea ==
    (apc = "done" /\ (MissingRow(req.board) \/ HasBadEntryInArea(req.board)))
        => (resp.kind = "error" /\ resp.status >= 400 /\ called = <<>>)

\* a hint request with a non-numeric string in the last cell was refused
C8_Witness ==
    /\ apc = "done" /\ req.op = "hint" /\ ~MissingRow(req.board)
    /\ req.board # None /\ 8 \in DOMAIN req.board[8]
    /\ req.board[8][8] = PyStr(<<"5", "a">>)
    /\ resp.status = 500 /\ called = <<>>

\* a solve request with a missing row was refused
C8_MissingRowReached ==
    /\ apc = "done" /\ req.op = "solve" /\ MissingRow(req.board)
    /\ resp.status = 500 /\ called = <<>>

\* b is exactly 9x9, every value is in 0..9 and no clue occurs twice in a
\* row, a column or a box
ValidBoard(b) ==
    IF DOMAIN b # Idx \/ \E r \in Idx : DOMAIN b[r] # Idx THEN FALSE
    ELSE IF \E r \in Idx, c \in Idx : b[r][c] \notin 0 .. N THEN FALSE
    ELSE NoConflict(b)

\* C9: whenever a request handler invokes solve_sudoku or get_hint, the
\* board it passes is exactly 9x9, holds only integers in 0..9 and has no
\* digit twice in a row, a column or a box.
C9_SolverGetsValidatedBoard ==
    \A i \in DOMAIN called : ValidBoard(called[i])

----------------------------------------------------------------------------
(* Claims about the image extraction *)

Rank(name) == CASE name = "tesseract" -> 1 [] name = "gemini" -> 2 [] name = "mock" -> 3

Attempted(name) == \E i \in DOMAIN attempts : attempts[i] = name

StructuralFailed == ~env.tesseract \/ (Attempted("tesseract") /\ ~Truthy(tessOut))

VisionFailed ==
    \/ ~env.gemini
    \/ ~env.key
    \/ Attempted("gemini") /\ ~Truthy(gemOut)

\* the strategies run in the order tesseract, gemini, mock; the first
\* success is returned and ends the run; a later strategy runs only after
\* the earlier ones failed or were unavailable, or after an exception
StrategyOrder ==
    /\ \A i, j \in DOMAIN attempts : i < j => Rank(attempts[i]) < Rank(attempts[j])
    /\ Truthy(tessOut) =>
          /\ attempts = <<"tesseract">>
          /\ epc = "returned" /\ source = "tesseract" /\ result = tessOut
    /\ Attempted("gemini") => StructuralFailed
    /\ Truthy(gemOut) =>
          /\ attempts[Len(attempts)] = "gemini"
          /\ epc = "returned" /\ source = "gemini" /\ result = gemOut
    /\ Attempted("mock") =>
          /\ epc = "returned" /\ source = "mock" /\ result = GridValue(MockPuzzle)
          /\ excepted \/ (StructuralFailed /\ VisionFailed)
    /\ epc = "returned" => source \in {"tesseract", "gemini", "mock"}

\* C5: the strategies are tried in the order structural, vision model,
\* sample puzzle, the first success wins, a later strategy is tried only
\* after the earlier ones failed or were unavailable (or an exception
\* occurred), and no failure or exception of a strategy reaches the caller.
C5_OrderedAndContained ==
    /\ StrategyOrder
    /\ epc # "raised"

\* a run in which the vision model was asked after the structural strategy
\* failed, and its reply let an exception leave extract_sudoku_from_image
C5_EscapeReached ==
    /\ epc = "raised"
    /\ attempts = <<"tesseract", "gemini">>
    /\ gemReply.kind = "reply"

\* a run through all three strategies that ends with the sample puzzle
C5_AllThreeReached ==
    /\ epc = "returned"
    /\ attempts = <<"tesseract", "gemini", "mock">>
    /\ ~excepted

\* val is a list of 9 lists of 9 integers in 0..9
IsGrid9(val) ==
    /\ val.t = "list"
    /\ Len(val.items) = N
    /\ \A r \in 1 .. N :
          /\ val.items[r].t = "list"
          /\ Len(val.items[r].items) = N
          /\ \A c \in 1 .. N :
                /\ val.items[r].items[c].t = "int"
                /\ val.items[r].items[c].v \in 0 .. N

\* C6: the vision-model strategy accepts a reply only if it holds a
\* well-formed matrix of 9 rows of 9 integers in 0..9, so every board that
\* extract_sudoku_from_image returns is a 9x9 grid of integers in 0..9.
C6_ReturnedBoardIsGrid ==
    /\ Truthy(gemOut) => IsGrid9(gemOut)
    /\ epc = "returned" => IsGrid9(result)

\* the boards that are not from the vision model are 9x9 grids of 0..9
C6_OtherSourcesAreGrids ==
    (epc = "returned" /\ source # "gemini") => IsGrid9(result)

\* a well-formed reply is accepted as it is
C6_GoodReplyReached ==
    /\ epc = "returned" /\ source = "gemini"
    /\ result = GridValue(MockPuzzle)

NonZeroCells(b) == {cell \in Cells : b[cell[1]][cell[2]] # 0}

\* C7: for every recognition result, extract_sudoku_with_tesseract returns
\* the recognised board unchanged when at least 17 cells are non-zero and
\* no board when fewer than 17 are, wherever the non-zero cells are and
\* whatever they hold.
C7_TesseractGate ==
    recognized.kind = "board" =>
        tessOut = IF Cardinality(NonZeroCells(recognized.board)) >= MinClues
                  THEN GridValue(recognized.board)
                  ELSE VNone

\* a recognition result with exactly 17 non-zero cells was returned
C7_Witness ==
    /\ recognized.kind = "board"
    /\ Cardinality(NonZeroCells(recognized.board)) = MinClues
    /\ tessOut = GridValue(recognized.board)
    /\ epc = "returned" /\ source = "tesseract"

\* a recognition result with 16 non-zero cells was rejected
C7_RejectedReached ==
    /\ recognized.kind = "board"
    /\ Cardinality(NonZeroCells(recognized.board)) = MinClues - 1
    /\ tessOut = VNone
    /\ epc = "gemini"

----------------------------------------------------------------------------
(* Sanity of the model's own data *)

DataOK ==
    /\ IsSolution(BaseSolution)
    /\ Extends(BaseSolution, MockPuzzle)

\* the step machine and the function agree on the outcome
MachineIsFunction ==
    (hpc = "idle" /\ pc = "done") => /\ retval = SolveSudoku(input).ok
                                     /\ board = SolveSudoku(input).board

\* the stepwise get_hint and the function agree on the hint
HintMachineIsFunction ==
    (hpc \in {"ask", "done"} /\ asked # None) => hint = GetHint(asked).hint

====
